---- MODULE Spec2Model ----
(***************************************************************************)
(* A model of option_signals.py: the incremental option-chain signal       *)
(* engine (AdvancedOptionSignalGenerator), its snapshot persistence and    *)
(* its orchestrator run_all, as a state machine over successive runs of    *)
(* main().                                                                 *)
(*                                                                         *)
(* Numbers.  Python floats are modelled as exact rationals <<n, d>> with   *)
(* d > 0 in lowest terms; Python ints are TLA+ integers.  round(x, p) is   *)
(* round-half-even on the exact value.  None is the empty tuple where a    *)
(* float or a dict may also stand.  Python dicts are TLA+ functions whose  *)
(* DOMAIN is the set of keys present.                                      *)
(***************************************************************************)
EXTENDS Integers, Sequences, FiniteSets, TLC

VARIABLES
    disk,           \* previous_snapshot.json: the persisted generation
    now,            \* the wall clock, in ticks of TickSeconds seconds
    runs,           \* how many times main() has been started
    pc,             \* control point of the current run
    exc,            \* the function an uncaught exception escaped from, or "none"
    snapshot,       \* self.snapshot: the prior generation, as loaded
    new_snapshot,   \* self.new_snapshot: the generation being built
    sym_i,          \* run_all: position of the loop over self.symbols
    analysis,       \* run_all: the current symbol's analysis (with side, label)
    strike_i,       \* select_optimal_strike_with_metrics: position in strike_info
    candidates,     \* select_optimal_strike_with_metrics: the candidates list
    metrics,        \* select_optimal_strike_with_metrics: the last iteration's
                    \* strike, its filter verdict and its metrics dict
    best,           \* generate_signal_from_analysis: the selector's result
    all_signals,    \* run_all: the signals produced so far
    dashboard_data, \* run_all: one row per analysed symbol
    final_json,     \* run_all: the top_buy / top_sell lists
    saves,          \* how many times this run called save_snapshot
    write_failed,   \* whether this run's save_snapshot hit a write error
    returned,       \* run_all's return value, None until it returns
    call            \* a single call of one of the engine's functions: its
                    \* arguments and what it gave

vars == <<disk, now, runs, pc, exc, snapshot, new_snapshot, sym_i, analysis,
          strike_i, candidates, metrics, best, all_signals, dashboard_data,
          final_json, saves, write_failed, returned, call>>

-----------------------------------------------------------------------------
(* Bounds of the model *)

\* main() is started at most MaxRuns times
MaxRuns == 2
\* the wall clock stops at MaxClock ticks
MaxClock == 2

-----------------------------------------------------------------------------
(* Exact rational arithmetic standing for Python float arithmetic *)

None == <<>>

Abs(x) == IF x < 0 THEN -x ELSE x

RECURSIVE GCD(_, _)
GCD(a, b) == IF b = 0 THEN a ELSE GCD(b, a % b)

LCM(a, b) == (a \div GCD(a, b)) * b

Rat(n, d) ==
    LET s == IF d < 0 THEN -1 ELSE 1
        g == GCD(Abs(n), Abs(d))
    IN  <<(s * n) \div g, (s * d) \div g>>

R(i) == <<i, 1>>

RAdd(a, b) ==
    LET l == LCM(a[2], b[2])
    IN  Rat(a[1] * (l \div a[2]) + b[1] * (l \div b[2]), l)

RNeg(a) == <<-a[1], a[2]>>

RSub(a, b) == RAdd(a, RNeg(b))

RMul(a, b) ==
    LET g1 == GCD(Abs(a[1]), b[2])
        g2 == GCD(Abs(b[1]), a[2])
    IN  Rat((a[1] \div g1) * (b[1] \div g2), (a[2] \div g2) * (b[2] \div g1))

\* a / b for b # 0
RDiv(a, b) == RMul(a, Rat(b[2], b[1]))

RLt(a, b) ==
    LET l == LCM(a[2], b[2])
    IN  a[1] * (l \div a[2]) < b[1] * (l \div b[2])

RLe(a, b) == a = b \/ RLt(a, b)

RMax(a, b) == IF RLt(a, b) THEN b ELSE a

RMin(a, b) == IF RLt(b, a) THEN b ELSE a

RECURSIVE Pow10(_)
Pow10(p) == IF p = 0 THEN 1 ELSE 10 * Pow10(p - 1)

\* Python's round(x, p): to the nearest multiple of 10^-p, ties to even
Round(x, p) ==
    LET m    == Pow10(p)
        i    == x[1] \div x[2]          \* floor
        r    == x[1] % x[2]             \* 0 <= r < x[2]
        q    == (r * m) \div x[2]
        rem2 == 2 * ((r * m) % x[2])
        up   == rem2 > x[2] \/ (rem2 = x[2] /\ (i * m + q) % 2 = 1)
    IN  IF m % x[2] = 0 THEN x
        ELSE Rat(i * m + q + (IF up THEN 1 ELSE 0), m)

Zero == R(0)

-----------------------------------------------------------------------------
(* Python dict helpers *)

EmptyDict == <<>>

\* d.setdefault(k, v) as the dict it leaves
SetDefault(d, k, v) == IF k \in DOMAIN d THEN d ELSE d @@ (k :> v)

\* d[k] = v as the dict it leaves
SetItem(d, k, v) == [x \in DOMAIN d \cup {k} |-> IF x = k THEN v ELSE d[x]]

\* d.get(k, default)
Get(d, k, default) == IF k \in DOMAIN d THEN d[k] ELSE default

-----------------------------------------------------------------------------
(* JSON values read from the chain and from the snapshot file *)

\* a JSON number, a non-numeric JSON string, JSON null
JNum(v) == [t |-> "num", v |-> v]
JStr == [t |-> "str", v |-> 0]
JNull == [t |-> "null", v |-> 0]

\* int(x): raises ValueError on a non-numeric string, TypeError on None
PyInt(j) == IF j.t = "num" THEN [raised |-> FALSE, v |-> j.v]
            ELSE [raised |-> TRUE, v |-> 0]

\* safe_int(leg.get(key)): int(x or 0), and 0 when the key is absent
safe_int(leg, key) == IF key \in DOMAIN leg THEN leg[key] ELSE 0

\* safe_float(leg.get(key)): float(x or 0.0), and 0.0 when the key is absent
safe_float(leg, key) == IF key \in DOMAIN leg THEN leg[key] ELSE Zero

\* r.get(side) or {}
LegOf(r, side) == IF side \in DOMAIN r THEN r[side] ELSE EmptyDict

-----------------------------------------------------------------------------
(* The clock and the timestamp strings *)

\* seconds per tick of the model's clock
TickSeconds == 45

\* ist_now_str(): the clock formatted "%Y-%m-%d %H:%M:%S", a string that
\* holds the time to the second
ist_now_str(clock) == <<"ts", clock * TickSeconds>>

\* datetime.strptime(s, "%Y-%m-%d %H:%M:%S"): raises on any other string
strptime(s) == IF s[1] = "ts" THEN [raised |-> FALSE, seconds |-> s[2]]
               ELSE [raised |-> TRUE, seconds |-> 0]

-----------------------------------------------------------------------------
(* ema_update *)

EMA_PERIOD == 3

\* alpha taken as 2 / period
ema_update_alpha(prev_ema, price, period) ==
    IF prev_ema = None THEN price
    ELSE LET alpha == RDiv(R(2), R(period))
         IN  RAdd(RMul(alpha, price), RMul(RSub(R(1), alpha), prev_ema))

ema_update(prev_ema, price, period) ==
    IF prev_ema = None THEN price
    ELSE LET alpha == RDiv(R(2), R(period + 1))
         IN  RAdd(RMul(alpha, price), RMul(RSub(R(1), alpha), prev_ema))

-----------------------------------------------------------------------------
(* Snapshot persistence.  The file is absent, holds text that is not JSON, *)
(* or holds a JSON value: null, a list, or an object.                      *)

FileMissing == [kind |-> "missing", value |-> EmptyDict]
FileGarbage == [kind |-> "garbage", value |-> EmptyDict]
FileNull    == [kind |-> "null", value |-> EmptyDict]
FileObject(d) == [kind |-> "object", value |-> d]

EmptySnapshot == [timestamp |-> None, symbols |-> EmptyDict]

\* load_snapshot: the parsed JSON value, whatever its shape, or the empty
\* structure when the file is missing or json.load raises
load_snapshot(file) ==
    IF file.kind = "missing" THEN [kind |-> "object", value |-> EmptySnapshot]
    ELSE IF file.kind = "garbage" THEN [kind |-> "object", value |-> EmptySnapshot]
    ELSE [kind |-> file.kind, value |-> file.value]

\* save_snapshot without its try/except: a failing write raises
save_snapshot_raising(data, file, outcome) ==
    [file   |-> IF outcome = "ok" THEN FileObject(data)
                ELSE IF outcome = "open_fails" THEN file
                ELSE FileGarbage,
     raised |-> outcome # "ok"]

\* save_snapshot: the file it leaves.  A failing open leaves the file as it
\* was; a failure after open(path, "w") leaves a truncated file.  Either
\* way the exception is caught and nothing is raised.
save_snapshot(data, file, outcome) ==
    [file   |-> IF outcome = "ok" THEN FileObject(data)
                ELSE IF outcome = "open_fails" THEN file
                ELSE FileGarbage,
     raised |-> FALSE]

SaveOutcomes == {"ok", "open_fails", "write_fails"}

-----------------------------------------------------------------------------
(* The configured symbols and the chains the exchange may answer with *)

SYMBOLS == <<"NIFTY", "BANKNIFTY">>

Leg(oi, chg, vol, iv, ltp) ==
    [openInterest |-> oi, changeinOpenInterest |-> chg,
     totalTradedVolume |-> vol, impliedVolatility |-> R(iv), lastPrice |-> R(ltp)]

Row(strike, expiry, ce, pe) ==
    [strikePrice |-> strike, expiryDate |-> expiry, CE |-> ce, PE |-> pe]

Chain(underlying, expiries, rows) ==
    [records |-> [underlyingValue |-> underlying, expiryDates |-> expiries,
                  data |-> rows]]

\* bullish whole chain and window; equal legs but volumes 100 and 200
ChainB1 ==
    Chain(JNum(R(100)), <<"E1", "E2">>,
      << Row(JNum(100), "E1", Leg(100, 100, 100, 20, 10), Leg(200, 50, 100, 20, 10)),
         Row(JNum(110), "E1", Leg(100, 100, 200, 20, 10), Leg(200, 50, 100, 20, 10)),
         Row(JNum(120), "E2", Leg(900, 0, 900, 20, 10), Leg(0, 0, 0, 20, 10)) >>)

\* bullish; underlying up 3%; strike 90's call has volume 8 with combined
\* open interest 110; strike 110 is illiquid (volume 5, combined open
\* interest 40) while its price and open interest rise the most
ChainB2 ==
    Chain(JNum(R(103)), <<"E1">>,
      << Row(JNum(90), "E1", Leg(10, 100, 8, 20, 10), Leg(100, 50, 100, 20, 10)),
         Row(JNum(100), "E1", Leg(100, 150, 100, 18, 20), Leg(200, 50, 100, 20, 10)),
         Row(JNum(110), "E1", Leg(20, 400, 5, 10, 30), Leg(20, 50, 100, 20, 10)) >>)

\* bearish whole chain and window; strike 100's put has volume 8 with
\* combined open interest 300, strike 110's put has volume 20 with combined
\* open interest 40, strike 120's put has volume 9 with combined open
\* interest 49
ChainS1 ==
    Chain(JNum(R(100)), <<"E1">>,
      << Row(JNum(100), "E1", Leg(200, 10, 100, 20, 10), Leg(100, 30, 8, 25, 12)),
         Row(JNum(110), "E1", Leg(30, 10, 100, 20, 10), Leg(10, 30, 20, 25, 12)),
         Row(JNum(120), "E1", Leg(40, 10, 100, 20, 10), Leg(9, 30, 9, 25, 12)) >>)

\* neutral: put/call ratio 1
ChainN1 ==
    Chain(JNum(R(101)), <<"E1">>,
      << Row(JNum(100), "E1", Leg(100, 10, 100, 20, 10), Leg(100, 10, 100, 20, 10)) >>)

\* bullish, and its only strike is illiquid: no call was traded; the row
\* has no PE leg's volume
ChainD1 ==
    Chain(JNum(R(100)), <<"E1">>,
      << [strikePrice |-> JNum(100), expiryDate |-> "E1",
          CE |-> Leg(10, 10, 0, 20, 10),
          PE |-> [openInterest |-> 20]] >>)

\* no open interest in any call, 100 in the puts, which are traded
ChainZ1 ==
    Chain(JNum(R(100)), <<"E1">>,
      << Row(JNum(100), "E1", Leg(0, 0, 0, 20, 10), Leg(100, 10, 100, 20, 10)) >>)

WideRows(strikes) ==
    [i \in 1..Len(strikes) |->
        Row(JNum(strikes[i]), "E1", Leg(100, 10, 100, 20, 10), Leg(200, 10, 100, 20, 10))]

WideStrikes == <<100, 110, 120, 130, 140, 150, 160>>

\* seven strikes with the underlying at the lowest, then at the highest
ChainW1 == Chain(JNum(R(100)), <<"E1">>, WideRows(WideStrikes))
ChainW2 == Chain(JNum(R(160)), <<"E1">>, WideRows(WideStrikes))

\* a row whose strikePrice is a non-numeric string
ChainBadStrike ==
    Chain(JNum(R(100)), <<"E1">>,
      << Row(JStr, "E1", Leg(100, 10, 100, 20, 10), Leg(200, 10, 100, 20, 10)) >>)

\* an underlyingValue that is a non-numeric string
ChainBadUnderlying ==
    Chain(JStr, <<"E1">>,
      << Row(JNum(100), "E1", Leg(100, 10, 100, 20, 10), Leg(200, 10, 100, 20, 10)) >>)

\* answers analyze_atm_strikes gives up on: no records, a null underlying,
\* no expiry dates, no rows, no row of the first expiry
ChainNoRecords == [message |-> "error"]
ChainNullUnderlying == Chain(JNull, <<"E1">>, ChainN1.records.data)
ChainNoExpiry == Chain(JNum(R(100)), <<>>, ChainN1.records.data)
ChainNoRows == Chain(JNum(R(100)), <<"E1">>, <<>>)
ChainOtherExpiry == Chain(JNum(R(100)), <<"E2">>, ChainN1.records.data)

\* what fetch_option_chain may return for a symbol: None (an HTTP status
\* other than 200, a network error) or the JSON body
Responses(sym) ==
    IF sym = "NIFTY"
    THEN <<None, ChainNoRecords, ChainNullUnderlying, ChainNoExpiry, ChainNoRows,
           ChainOtherExpiry, ChainBadStrike, ChainB1, ChainB2, ChainS1,
           ChainW1, ChainW2>>
    ELSE <<None, ChainBadUnderlying, ChainN1, ChainD1, ChainB1, ChainZ1>>

-----------------------------------------------------------------------------
(* analyze_atm_strikes and analyze_strike_strength *)

\* not x, for a dict, a list or None
Falsy(x) == DOMAIN x = {}

RECURSIVE SortedSeq(_)
\* sorted(S) for a set of integers
SortedSeq(S) ==
    IF S = {} THEN <<>>
    ELSE LET m == CHOOSE x \in S : \A y \in S : x <= y
         IN  <<m>> \o SortedSeq(S \ {m})

\* the ATM window reaches this many strikes to each side
ATM_WINDOW == 5

\* int(r.get("strikePrice", 0))
StrikeOf(r) ==
    IF "strikePrice" \in DOMAIN r THEN PyInt(r.strikePrice)
    ELSE [raised |-> FALSE, v |-> 0]

\* |x - u| for a strike x and the underlying u
Distance(x, u) == IF RLt(RSub(R(x), u), Zero) THEN RSub(u, R(x)) ELSE RSub(R(x), u)

\* strikes.index(min(strikes, key=lambda x: abs(x - float(underlying)))),
\* counted from 1: the first of the nearest strikes
AtmIndex(strikes, u) ==
    CHOOSE i \in 1..Len(strikes) :
        /\ \A j \in 1..Len(strikes) :
              ~RLt(Distance(strikes[j], u), Distance(strikes[i], u))
        /\ \A j \in 1..(i - 1) :
              RLt(Distance(strikes[i], u), Distance(strikes[j], u))

\* strikes[max(0, atm_index - 5) : min(len(strikes), atm_index + 6)]
Window(strikes, atm_index) ==
    SubSeq(strikes,
           (IF atm_index - 1 - ATM_WINDOW > 0 THEN atm_index - 1 - ATM_WINDOW ELSE 0) + 1,
           IF atm_index + ATM_WINDOW < Len(strikes)
           THEN atm_index + ATM_WINDOW ELSE Len(strikes))

\* [r for r in rows if int(r.get("strikePrice", 0)) in selected]
RowsIn(rows, selected) ==
    LET InWindow(r) == \E k \in 1..Len(selected) : selected[k] = StrikeOf(r).v
    IN  SelectSeq(rows, InWindow)

\* [r for r in all_rows if r.get("expiryDate") == expiry]
RowsOf(all_rows, expiry) ==
    LET IsExpiry(r) == Get(r, "expiryDate", "") = expiry
    IN  SelectSeq(all_rows, IsExpiry)

\* lines 146-158: the window around the ATM strike and its rows
AtmInfo(u, expiry, rows_for_expiry, strikes, atm_index) ==
    [raised |-> FALSE,
     value  |-> [underlying       |-> u,
                 atm_strike       |-> strikes[atm_index],
                 expiry           |-> expiry,
                 strikes_analyzed |-> Window(strikes, atm_index),
                 strike_rows      |-> RowsIn(rows_for_expiry, Window(strikes, atm_index)),
                 all_rows         |-> rows_for_expiry]]

\* lines 142-145: the sorted strikes and the ATM strike
AnalyzeStrikes(u, expiry, rows_for_expiry, strikes) ==
    AtmInfo(u, expiry, rows_for_expiry, strikes, AtmIndex(strikes, u))

\* lines 140-145: int() of a row's strikePrice or float() of the underlying
\* raises when the value is not numeric
AnalyzeRows(underlying, expiry, rows_for_expiry) ==
    IF Falsy(rows_for_expiry) THEN [raised |-> FALSE, value |-> None]
    ELSE IF \E i \in 1..Len(rows_for_expiry) : StrikeOf(rows_for_expiry[i]).raised
         THEN [raised |-> TRUE, value |-> None]
    ELSE IF underlying.t # "num" THEN [raised |-> TRUE, value |-> None]
    ELSE AnalyzeStrikes(underlying.v, expiry, rows_for_expiry,
            SortedSeq({StrikeOf(rows_for_expiry[i]).v : i \in 1..Len(rows_for_expiry)}))

\* lines 136-139
AnalyzeRecords(underlying, expiry_list, all_rows) ==
    IF underlying.t = "null" \/ Falsy(expiry_list) \/ Falsy(all_rows)
    THEN [raised |-> FALSE, value |-> None]
    ELSE AnalyzeRows(underlying, expiry_list[1], RowsOf(all_rows, expiry_list[1]))

\* The ATM info and the rows of the ATM window, None when the answer lacks
\* records, underlying, expiries or rows; raised when int() or float()
\* meets a value it cannot convert.
analyze_atm_strikes(raw) ==
    IF Falsy(raw) \/ "records" \notin DOMAIN raw
    THEN [raised |-> FALSE, value |-> None]
    ELSE AnalyzeRecords(Get(raw.records, "underlyingValue", JNull),
                        Get(raw.records, "expiryDates", <<>>),
                        Get(raw.records, "data", <<>>))

\* One row's CE/PE fields as numbers
StrikeInfo(r) ==
    [strike |-> StrikeOf(r).v,
     ce_oi  |-> safe_int(LegOf(r, "CE"), "openInterest"),
     pe_oi  |-> safe_int(LegOf(r, "PE"), "openInterest"),
     ce_chg |-> safe_int(LegOf(r, "CE"), "changeinOpenInterest"),
     pe_chg |-> safe_int(LegOf(r, "PE"), "changeinOpenInterest"),
     ce_vol |-> safe_int(LegOf(r, "CE"), "totalTradedVolume"),
     pe_vol |-> safe_int(LegOf(r, "PE"), "totalTradedVolume"),
     ce_iv  |-> safe_float(LegOf(r, "CE"), "impliedVolatility"),
     pe_iv  |-> safe_float(LegOf(r, "PE"), "impliedVolatility"),
     ce_ltp |-> safe_float(LegOf(r, "CE"), "lastPrice"),
     pe_ltp |-> safe_float(LegOf(r, "PE"), "lastPrice"),
     ce_strength |-> safe_int(LegOf(r, "CE"), "openInterest")
                     + safe_int(LegOf(r, "CE"), "changeinOpenInterest")
                     + safe_int(LegOf(r, "CE"), "totalTradedVolume"),
     pe_strength |-> safe_int(LegOf(r, "PE"), "openInterest")
                     + safe_int(LegOf(r, "PE"), "changeinOpenInterest")
                     + safe_int(LegOf(r, "PE"), "totalTradedVolume")]

analyze_strike_strength(strike_rows) ==
    [i \in 1..Len(strike_rows) |-> StrikeInfo(strike_rows[i])]

-----------------------------------------------------------------------------
(* Metric computations.  Each method is an operator on the engine          *)
(* self = [snapshot, new_snapshot] that gives the engine it leaves and the *)
(* values it returns.                                                      *)

\* str(strike): the key of a strike in the snapshot dicts
Str(strike) == ToString(strike)

\* x is neither None nor 0.0
Truthy(x) == x # None /\ x # Zero

\* self.snapshot.get("symbols", {}).get(symbol, {})
PrevSym(self, symbol) == Get(Get(self.snapshot, "symbols", EmptyDict), symbol, EmptyDict)

\* the strikes read from the generation being built once it holds the symbol
PrevStrikes_pending(self, symbol) ==
    IF symbol \in DOMAIN self.new_snapshot.symbols
    THEN Get(self.new_snapshot.symbols[symbol], "strikes", EmptyDict)
    ELSE IF Falsy(PrevSym(self, symbol)) THEN EmptyDict
    ELSE Get(PrevSym(self, symbol), "strikes", EmptyDict)

\* sym_snap.get("strikes", {}) if sym_snap else {}
PrevStrikes(self, symbol) ==
    IF Falsy(PrevSym(self, symbol)) THEN EmptyDict
    ELSE Get(PrevSym(self, symbol), "strikes", EmptyDict)

\* the prior generation's value of a strike's field:
\*     x = default
\*     if prev_strikes and str(strike) in prev_strikes:
\*         x = prev_strikes[str(strike)].get(field, default)
PrevField(self, symbol, strike, field, default) ==
    IF Str(strike) \in DOMAIN PrevStrikes(self, symbol)
    THEN Get(PrevStrikes(self, symbol)[Str(strike)], field, default)
    ELSE default

\* strikes.setdefault(key, {}), then strikes[key][field] = value
StrikesWithField(strikes, key, field, value) ==
    SetItem(strikes, key, SetItem(Get(strikes, key, EmptyDict), field, value))

\* sym.setdefault("strikes", {}) and the write below it
SymWithField(sym, key, field, value) ==
    SetItem(sym, "strikes",
            StrikesWithField(Get(sym, "strikes", EmptyDict), key, field, value))

\* symbols.setdefault(symbol, {}) and the write below it
SymbolsWithField(symbols, symbol, key, field, value) ==
    SetItem(symbols, symbol,
            SymWithField(Get(symbols, symbol, EmptyDict), key, field, value))

\* the write lands in the prior snapshot
RecordField_prior(self, symbol, strike, field, value) ==
    [self EXCEPT !.snapshot.symbols =
        SymbolsWithField(@, symbol, Str(strike), field, value)]

\* self.new_snapshot["symbols"].setdefault(symbol, {}).setdefault("strikes", {})
\*     .setdefault(str(strike), {}), then [...][str(strike)][field] = value
RecordField(self, symbol, strike, field, value) ==
    [self EXCEPT !.new_snapshot.symbols =
        SymbolsWithField(@, symbol, Str(strike), field, value)]

\* prev_sym.get("underlying") or (prev_sym.get("meta") or {}).get("underlying")
PrevPrice(prev_sym) ==
    IF Falsy(prev_sym) THEN None
    ELSE IF Truthy(Get(prev_sym, "underlying", None))
         THEN Get(prev_sym, "underlying", None)
    ELSE Get(Get(prev_sym, "meta", EmptyDict), "underlying", None)

\* round((underlying - prev_price) / prev_price * 100.0, 4), 0.0 without
\* a previous price
TrendFrom(underlying, prev_price) ==
    IF Truthy(prev_price)
    THEN Round(RMul(RDiv(RSub(underlying, prev_price), prev_price), R(100)), 4)
    ELSE Zero

compute_price_trend(self, symbol, underlying) ==
    TrendFrom(underlying, PrevPrice(PrevSym(self, symbol)))

\* lines 213-216
EmaRecorded(self, symbol, strike, prev, new_ema) ==
    [self    |-> RecordField(self, symbol, strike, "ema_ltp", new_ema),
     prev    |-> prev,
     new_ema |-> new_ema]

compute_ema_and_update(self, symbol, strike, option_ltp) ==
    EmaRecorded(self, symbol, strike,
                PrevField(self, symbol, strike, "ema_ltp", None),
                ema_update(PrevField(self, symbol, strike, "ema_ltp", None),
                           option_ltp, EMA_PERIOD))

\* lines 234-239
VwapRecorded(self, symbol, strike, prev_cum_num, prev_cum_vol, cum_num, cum_vol) ==
    [self |-> RecordField(
                RecordField(self, symbol, strike, "cum_vwap_num", cum_num),
                symbol, strike, "cum_vol", cum_vol),
     vwap |-> IF cum_vol > 0 THEN RDiv(cum_num, R(cum_vol)) ELSE None,
     prev_cum_num |-> prev_cum_num,
     prev_cum_vol |-> prev_cum_vol]

\* option_ltp * vol if option_ltp and vol else 0.0
AddNum(option_ltp, vol) ==
    IF option_ltp # Zero /\ vol # 0 THEN RMul(option_ltp, R(vol)) ELSE Zero

\* the sums started afresh in every run
compute_vwap_windowed(self, symbol, strike, option_ltp, vol) ==
    VwapRecorded(self, symbol, strike,
                 PrevField(self, symbol, strike, "cum_vwap_num", Zero),
                 PrevField(self, symbol, strike, "cum_vol", 0),
                 AddNum(option_ltp, vol),
                 vol)

compute_vwap_and_update(self, symbol, strike, option_ltp, vol) ==
    VwapRecorded(self, symbol, strike,
                 PrevField(self, symbol, strike, "cum_vwap_num", Zero),
                 PrevField(self, symbol, strike, "cum_vol", 0),
                 RAdd(PrevField(self, symbol, strike, "cum_vwap_num", Zero),
                      AddNum(option_ltp, vol)),
                 PrevField(self, symbol, strike, "cum_vol", 0) + vol)

\* a missing previous IV taken as 0
IvRecorded_from_zero(self, symbol, strike, iv_now, prev_iv) ==
    [self     |-> RecordField(self, symbol, strike, "iv", iv_now),
     iv_delta |-> IF prev_iv # None THEN RSub(iv_now, prev_iv) ELSE iv_now,
     prev_iv  |-> prev_iv]

\* lines 248-254
IvRecorded(self, symbol, strike, iv_now, prev_iv) ==
    [self     |-> RecordField(self, symbol, strike, "iv", iv_now),
     iv_delta |-> IF prev_iv # None THEN RSub(iv_now, prev_iv) ELSE None,
     prev_iv  |-> prev_iv]

compute_iv_trend_and_update(self, symbol, strike, iv_now) ==
    IvRecorded(self, symbol, strike, iv_now,
               PrevField(self, symbol, strike, "iv", None))

\* the seconds not divided by 60
Minutes_seconds(prev_seconds, clock) ==
    RMax(R(1), R(clock * TickSeconds - prev_seconds))

\* max(1.0, (now_dt - prev_dt).total_seconds() / 60.0)
Minutes(prev_seconds, clock) ==
    RMax(R(1), RDiv(R(clock * TickSeconds - prev_seconds), R(60)))

\* the early returns without their writes of coi
compute_oi_speed_unrecorded(self, symbol, strike, coi, clock) ==
    IF Falsy(Get(self.snapshot, "timestamp", None))
    THEN [self |-> self, speed |-> Zero]
    ELSE IF strptime(self.snapshot.timestamp).raised
    THEN [self |-> self, speed |-> Zero]
    ELSE [self  |-> RecordField(self, symbol, strike, "coi", coi),
          speed |-> Round(RDiv(R(coi - PrevField(self, symbol, strike, "coi", 0)),
                               Minutes(strptime(self.snapshot.timestamp).seconds,
                                       clock)), 4)]

\* clock: the wall clock at the call
compute_oi_speed(self, symbol, strike, coi, clock) ==
    IF Falsy(Get(self.snapshot, "timestamp", None))
    THEN [self |-> RecordField(self, symbol, strike, "coi", coi), speed |-> Zero]
    ELSE IF strptime(self.snapshot.timestamp).raised
    THEN [self |-> RecordField(self, symbol, strike, "coi", coi), speed |-> Zero]
    ELSE [self  |-> RecordField(self, symbol, strike, "coi", coi),
          speed |-> Round(RDiv(R(coi - PrevField(self, symbol, strike, "coi", 0)),
                               Minutes(strptime(self.snapshot.timestamp).seconds,
                                       clock)), 4)]

-----
(* score_candidate *)

WEIGHTS ==
    [price_trend  |-> Rat(30, 100),
     ema_momentum |-> Rat(20, 100),
     vwap_dev     |-> Rat(15, 100),
     iv_trend     |-> Rat(20, 100),
     oi_speed     |-> Rat(15, 100)]

\* the clamp without its upper bound
Clamp_open(x, bound) == RDiv(RMax(RNeg(R(bound)), x), R(bound))

\* max(-bound, min(bound, x)) / bound
Clamp(x, bound) == RDiv(RMax(RNeg(R(bound)), RMin(R(bound), x)), R(bound))

score_candidate(m) ==
    LET pt      == Clamp(m.price_trend_pct, 3)
        ed      == Clamp(m.ema_delta, 5)
        vd      == Clamp(m.vwap_dev_pct, 10)
        ivd     == RNeg(Clamp(m.iv_delta, 5))
        oi_norm == Clamp(m.oi_speed, 1000)
        comp    == RAdd(RAdd(RAdd(RAdd(RMul(WEIGHTS.price_trend, pt),
                                       RMul(WEIGHTS.ema_momentum, ed)),
                                  RMul(WEIGHTS.vwap_dev, vd)),
                             RMul(WEIGHTS.iv_trend, ivd)),
                        RMul(WEIGHTS.oi_speed, oi_norm))
    IN  Round(RMul(comp, R(100)), 2)

-----------------------------------------------------------------------------
(* list.sort(key=..., reverse=True): a stable descending sort.  A key is  *)
(* a pair <<score, volume>> compared as Python compares tuples.            *)

KeyLt(a, b) == RLt(a[1], b[1]) \/ (a[1] = b[1] /\ a[2] < b[2])

\* p with position n put behind the first pos entries
InsertAt(p, n, pos) == SubSeq(p, 1, pos) \o <<n>> \o SubSeq(p, pos + 1, Len(p))

\* n goes behind every position whose key is not below its own
InsertDesc(p, keys, n) ==
    InsertAt(p, n, Cardinality({k \in 1..Len(p) : ~KeyLt(keys[p[k]], keys[n])}))

RECURSIVE OrderDesc(_, _)
\* the positions 1..n of keys in descending order of key, equal keys in
\* their original order
OrderDesc(keys, n) ==
    IF n = 0 THEN <<>> ELSE InsertDesc(OrderDesc(keys, n - 1), keys, n)

Permuted(seq, p) == [i \in 1..Len(seq) |-> seq[p[i]]]

SortDesc(seq, keys) == Permuted(seq, OrderDesc(keys, Len(seq)))

-----------------------------------------------------------------------------
(* select_optimal_strike_with_metrics *)

\* the filter with "or" for "and"
LiquidityDrop_either(vol, info) == vol < 10 \/ info.ce_oi + info.pe_oi < 50

\* the base liquidity filter: skip if volume very low unless OI strong
LiquidityDrop(vol, info) == vol < 10 /\ info.ce_oi + info.pe_oi < 50

\* lines 341-352: the side's ltp, iv, volume, change in OI and OI
SideOf(option_side, info) ==
    IF option_side = "CE"
    THEN [ltp |-> info.ce_ltp, iv |-> info.ce_iv, vol |-> info.ce_vol,
          coi |-> info.ce_chg, oi_val |-> info.ce_oi]
    ELSE [ltp |-> info.pe_ltp, iv |-> info.pe_iv, vol |-> info.pe_vol,
          coi |-> info.pe_chg, oi_val |-> info.pe_oi]

\* lines 376-389: the metrics dict of one strike
MetricsOf(s, price_trend_pct, e, v, i, o) ==
    [price_trend_pct |-> Round(price_trend_pct, 4),
     ema_prev        |-> e.prev,
     ema_new         |-> e.new_ema,
     ema_delta       |-> Round(IF e.prev # None THEN RSub(e.new_ema, e.prev)
                               ELSE Zero, 6),
     vwap            |-> v.vwap,
     vwap_dev_pct    |-> Round(IF Truthy(v.vwap)
                               THEN RMul(RDiv(RSub(s.ltp, v.vwap), v.vwap), R(100))
                               ELSE Zero, 4),
     iv_delta        |-> Round(IF i.iv_delta # None THEN i.iv_delta ELSE Zero, 6),
     iv_now          |-> s.iv,
     oi_speed        |-> o.speed,
     ltp             |-> s.ltp,
     volume          |-> s.vol,
     coi             |-> s.coi]

\* lines 391-412: the filter, then the score and the candidate
Filtered(option_side, info, s, self, m) ==
    [self      |-> self,
     strike    |-> info.strike,
     metrics   |-> m,
     dropped   |-> LiquidityDrop(s.vol, info),
     candidate |-> [strike  |-> info.strike,
                    side    |-> option_side,
                    ltp     |-> s.ltp,
                    iv      |-> s.iv,
                    volume  |-> s.vol,
                    coi     |-> s.coi,
                    oi      |-> s.oi_val,
                    score   |-> score_candidate(m),
                    metrics |-> m]]

\* lines 372-374 done: oi_speed is computed, the metrics dict follows
WithOiSpeed(option_side, info, s, price_trend_pct, e, v, i, o) ==
    Filtered(option_side, info, s, o.self, MetricsOf(s, price_trend_pct, e, v, i, o))

\* lines 372-374: compute_oi_speed on the engine as the IV step left it
WithIv(analysis_data, option_side, info, clock, s, price_trend_pct, e, v, i) ==
    WithOiSpeed(option_side, info, s, price_trend_pct, e, v, i,
        compute_oi_speed(i.self, analysis_data.symbol, info.strike, s.coi, clock))

\* lines 368-370: compute_iv_trend_and_update on the engine as the VWAP
\* step left it
WithVwap(analysis_data, option_side, info, clock, s, price_trend_pct, e, v) ==
    WithIv(analysis_data, option_side, info, clock, s, price_trend_pct, e, v,
        compute_iv_trend_and_update(v.self, analysis_data.symbol, info.strike, s.iv))

\* the filter's "continue" placed behind the EMA step: a dropped strike has
\* recorded its ema_ltp alone
WithEma_filtering(analysis_data, option_side, info, clock, s, price_trend_pct, e) ==
    IF LiquidityDrop(s.vol, info)
    THEN [self      |-> e.self,
          strike    |-> info.strike,
          metrics   |-> None,
          dropped   |-> TRUE,
          candidate |-> None]
    ELSE WithVwap(analysis_data, option_side, info, clock, s, price_trend_pct, e,
             compute_vwap_and_update(e.self, analysis_data.symbol, info.strike,
                                     s.ltp, s.vol))

\* lines 360-366: compute_vwap_and_update on the engine as the EMA step
\* left it
WithEma(analysis_data, option_side, info, clock, s, price_trend_pct, e) ==
    WithVwap(analysis_data, option_side, info, clock, s, price_trend_pct, e,
        compute_vwap_and_update(e.self, analysis_data.symbol, info.strike, s.ltp, s.vol))

\* lines 354-358: the price trend and compute_ema_and_update
WithSide(self, analysis_data, option_side, info, clock, s) ==
    WithEma(analysis_data, option_side, info, clock, s,
        compute_price_trend(self, analysis_data.symbol, analysis_data.underlying),
        compute_ema_and_update(self, analysis_data.symbol, info.strike, s.ltp))

\* the filter moved above the metric computations: a dropped strike
\* computes and records nothing
select_iteration_filter_first(self, analysis_data, option_side, info, clock) ==
    IF LiquidityDrop(SideOf(option_side, info).vol, info)
    THEN [self      |-> self,
          strike    |-> info.strike,
          metrics   |-> None,
          dropped   |-> TRUE,
          candidate |-> None]
    ELSE WithSide(self, analysis_data, option_side, info, clock,
                  SideOf(option_side, info))

\* The body of the loop over strike_info for one strike: the metric
\* computations with their writes to new_snapshot, then the filter, then
\* the score.
select_iteration(self, analysis_data, option_side, info, clock) ==
    WithSide(self, analysis_data, option_side, info, clock,
             SideOf(option_side, info))

\* the sort by score alone
select_result_by_score(cands) ==
    IF Falsy(cands) THEN None
    ELSE SortDesc(cands, [k \in 1..Len(cands) |-> <<cands[k].score, 0>>])[1]

\* after the loop: None without candidates, else the first of the list
\* sorted by (score, volume), highest first
select_result(cands) ==
    IF Falsy(cands) THEN None
    ELSE SortDesc(cands, [k \in 1..Len(cands) |-> <<cands[k].score, cands[k].volume>>])[1]

-----------------------------------------------------------------------------
(* generate_signal_from_analysis *)

RECURSIVE SumOI(_, _)
\* the sum over rows of safe_int((r.get(side) or {}).get("openInterest"))
SumOI(rows, side) ==
    IF rows = <<>> THEN 0
    ELSE safe_int(LegOf(Head(rows), side), "openInterest") + SumOI(Tail(rows), side)

\* pe_oi / ce_oi if ce_oi else 0.0
OIRatio(rows) ==
    IF SumOI(rows, "CE") # 0 THEN Rat(SumOI(rows, "PE"), SumOI(rows, "CE")) ELSE Zero

\* the first bearish rule of the PCR copied from the bullish one with its
\* comparison left as >=
Sentiment_copied(pcr, oi_ratio) ==
    LET b1 == IF RLe(Rat(15, 10), pcr) THEN 2
              ELSE IF RLe(Rat(12, 10), pcr) THEN 1 ELSE 0
        s1 == IF RLe(Rat(6, 10), pcr) THEN 2
              ELSE IF RLe(pcr, Rat(8, 10)) THEN 1 ELSE 0
        b2 == IF RLe(Rat(13, 10), oi_ratio) THEN 1 ELSE 0
        s2 == IF ~RLe(Rat(13, 10), oi_ratio) /\ RLe(oi_ratio, Rat(7, 10)) THEN 1 ELSE 0
        bullish == b1 + b2
        bearish == s1 + s2
    IN  [bullish |-> bullish,
         bearish |-> bearish,
         side    |-> IF bullish >= 2 THEN "CE"
                     ELSE IF bearish >= 2 THEN "PE" ELSE "",
         label   |-> IF bullish >= 3 THEN "STRONG BUY"
                     ELSE IF bullish >= 2 THEN "BUY"
                     ELSE IF bearish >= 3 THEN "STRONG SELL"
                     ELSE IF bearish >= 2 THEN "SELL" ELSE ""]

\* the first threshold of the PCR compared with > for >=
Sentiment_strict(pcr, oi_ratio) ==
    LET b1 == IF RLt(Rat(15, 10), pcr) THEN 2
              ELSE IF RLe(Rat(12, 10), pcr) THEN 1 ELSE 0
        s1 == IF RLe(pcr, Rat(6, 10)) THEN 2
              ELSE IF RLe(pcr, Rat(8, 10)) THEN 1 ELSE 0
        b2 == IF RLe(Rat(13, 10), oi_ratio) THEN 1 ELSE 0
        s2 == IF ~RLe(Rat(13, 10), oi_ratio) /\ RLe(oi_ratio, Rat(7, 10)) THEN 1 ELSE 0
        bullish == b1 + b2
        bearish == s1 + s2
    IN  [bullish |-> bullish,
         bearish |-> bearish,
         side    |-> IF bullish >= 2 THEN "CE"
                     ELSE IF bearish >= 2 THEN "PE" ELSE "",
         label   |-> IF bullish >= 3 THEN "STRONG BUY"
                     ELSE IF bullish >= 2 THEN "BUY"
                     ELSE IF bearish >= 3 THEN "STRONG SELL"
                     ELSE IF bearish >= 2 THEN "SELL" ELSE ""]

\* the sentiment counters and the side and label they decide
Sentiment(pcr, oi_ratio) ==
    LET b1 == IF RLe(Rat(15, 10), pcr) THEN 2
              ELSE IF RLe(Rat(12, 10), pcr) THEN 1 ELSE 0
        s1 == IF RLe(pcr, Rat(6, 10)) THEN 2
              ELSE IF RLe(pcr, Rat(8, 10)) THEN 1 ELSE 0
        b2 == IF RLe(Rat(13, 10), oi_ratio) THEN 1 ELSE 0
        s2 == IF ~RLe(Rat(13, 10), oi_ratio) /\ RLe(oi_ratio, Rat(7, 10)) THEN 1 ELSE 0
        bullish == b1 + b2
        bearish == s1 + s2
    IN  [bullish |-> bullish,
         bearish |-> bearish,
         side    |-> IF bullish >= 2 THEN "CE"
                     ELSE IF bearish >= 2 THEN "PE" ELSE "",
         label   |-> IF bullish >= 3 THEN "STRONG BUY"
                     ELSE IF bullish >= 2 THEN "BUY"
                     ELSE IF bearish >= 3 THEN "STRONG SELL"
                     ELSE IF bearish >= 2 THEN "SELL" ELSE ""]

\* the signal dict built from the selector's result
SignalOf(a, label, side, b, pcr, oi_ratio, clock) ==
    [symbol      |-> a.symbol,
     signal      |-> label,
     option_type |-> side,
     strike      |-> b.strike,
     atm         |-> a.atm_strike,
     distance_from_atm |-> IF b.strike # 0 /\ a.atm_strike # 0
                           THEN Abs(b.strike - a.atm_strike) ELSE 0,
     ltp         |-> b.ltp,
     oi          |-> b.oi,
     coi         |-> b.coi,
     volume      |-> b.volume,
     iv          |-> b.iv,
     score       |-> b.score,
     price_trend |-> b.metrics.price_trend_pct,
     ema_trend   |-> b.metrics.ema_delta,
     vwap_dev    |-> b.metrics.vwap_dev_pct,
     iv_trend    |-> b.metrics.iv_delta,
     oi_speed    |-> b.metrics.oi_speed,
     metrics     |-> b.metrics,
     pcr         |-> Round(pcr, 3),
     oi_ratio    |-> Round(oi_ratio, 3),
     timestamp   |-> ist_now_str(clock)]

-----------------------------------------------------------------------------
(* The engine's construction *)

\* lines 97-102 on the loaded value
InitWith(loaded, clock) ==
    IF loaded.kind # "object"
    THEN [raised |-> TRUE, snapshot |-> EmptySnapshot, new_snapshot |-> EmptySnapshot]
    ELSE [raised       |-> FALSE,
          snapshot     |-> SetDefault(loaded.value, "symbols", EmptyDict),
          new_snapshot |-> [timestamp |-> ist_now_str(clock), symbols |-> EmptyDict]]

\* AdvancedOptionSignalGenerator.__init__: "symbols" not in None raises a
\* TypeError, and so does the item assignment on a list
Engine_init(file, clock) == InitWith(load_snapshot(file), clock)

\* sym.setdefault("meta", {})["underlying"] = price
SymWithUnderlying(sym, price) ==
    SetItem(sym, "meta", SetItem(Get(sym, "meta", EmptyDict), "underlying", price))

\* the underlying written only for a symbol the generation already holds
SymbolsWithUnderlying_existing(symbols, symbol, price) ==
    IF symbol \in DOMAIN symbols
    THEN SetItem(symbols, symbol, SymWithUnderlying(symbols[symbol], price))
    ELSE symbols

\* symbols.setdefault(symbol, {}) and the write below it
SymbolsWithUnderlying(symbols, symbol, price) ==
    SetItem(symbols, symbol,
            SymWithUnderlying(Get(symbols, symbol, EmptyDict), price))

\* run_all, lines 577-587: the underlying of every analysed symbol goes to
\* new_snapshot["symbols"][sym]["meta"]["underlying"]
RECURSIVE MergeUnderlying(_, _)
MergeUnderlying(ns, rows) ==
    IF rows = <<>> THEN ns
    ELSE MergeUnderlying(
            [ns EXCEPT !.symbols =
                SymbolsWithUnderlying(@, Head(rows).symbol, Head(rows).current_price)],
            Tail(rows))

\* the top lists hold this many signals
TOP_N == 3

\* s["signal"] contains the word
HasWord(sg, word) ==
    IF word = "BUY" THEN sg.signal \in {"BUY", "STRONG BUY"}
    ELSE sg.signal \in {"SELL", "STRONG SELL"}

\* the first TOP_N of a list
FirstN(sorted) == SubSeq(sorted, 1, IF Len(sorted) < TOP_N THEN Len(sorted) ELSE TOP_N)

\* the sort without reverse=True
ByScore_ascending(picked) ==
    SortDesc(picked, [k \in 1..Len(picked) |-> <<RNeg(picked[k].score), 0>>])

\* sorted(picked, key=lambda x: x["score"], reverse=True)
ByScore(picked) ==
    SortDesc(picked, [k \in 1..Len(picked) |-> <<picked[k].score, 0>>])

\* [s for s in all_signals if word in s["signal"]], sorted by score, highest
\* first, cut to the first three
TopOf(signals, word) ==
    FirstN(ByScore(SelectSeq(signals, LAMBDA sg : HasWord(sg, word))))

DashboardRow(sym, a, sig_label, clock) ==
    [symbol           |-> sym,
     current_price    |-> a.underlying,
     atm_strike       |-> a.atm_strike,
     strikes_analyzed |-> a.strikes_analyzed,
     signal           |-> sig_label,
     timestamp        |-> ist_now_str(clock)]

-----------------------------------------------------------------------------
(* The state machine *)

\* no function is called on its own in the runs of main()
NoCall == [op |-> "none"]

\* before main() is started
Idle ==
    /\ now = 0
    /\ runs = 0
    /\ pc = "idle"
    /\ exc = "none"
    /\ snapshot = EmptySnapshot
    /\ new_snapshot = EmptySnapshot
    /\ sym_i = 1
    /\ analysis = None
    /\ strike_i = 1
    /\ candidates = <<>>
    /\ metrics = None
    /\ best = None
    /\ all_signals = <<>>
    /\ dashboard_data = <<>>
    /\ final_json = [top_buy |-> <<>>, top_sell |-> <<>>]
    /\ saves = 0
    /\ write_failed = FALSE
    /\ returned = None

Init ==
    /\ disk \in {FileMissing, FileGarbage, FileNull}
    /\ Idle
    /\ call = NoCall

\* the wall clock advances between two runs
Tick ==
    /\ pc \in {"done", "crashed"}
    /\ now < MaxClock
    /\ now' = now + 1
    /\ UNCHANGED <<call, disk, runs, pc, exc, snapshot, new_snapshot, sym_i, analysis,
                   strike_i, candidates, metrics, best, all_signals,
                   dashboard_data, final_json, saves, write_failed, returned>>

\* the engine's fields after __init__, or the crash it ends in
Constructed(e) ==
    /\ snapshot' = e.snapshot
    /\ new_snapshot' = e.new_snapshot
    /\ pc' = IF e.raised THEN "crashed" ELSE "loop"
    /\ exc' = IF e.raised THEN "__init__" ELSE "none"

\* main(): a new process builds the engine and enters run_all
Construct ==
    /\ pc \in {"idle", "done", "crashed"}
    /\ runs < MaxRuns
    /\ runs' = runs + 1
    /\ Constructed(Engine_init(disk, now))
    /\ sym_i' = 1
    /\ analysis' = None
    /\ strike_i' = 1
    /\ candidates' = <<>>
    /\ metrics' = None
    /\ best' = None
    /\ all_signals' = <<>>
    /\ dashboard_data' = <<>>
    /\ final_json' = [top_buy |-> <<>>, top_sell |-> <<>>]
    /\ saves' = 0
    /\ write_failed' = FALSE
    /\ returned' = None
    /\ UNCHANGED <<call, disk, now>>

InLoop == pc = "loop" /\ sym_i <= Len(SYMBOLS)

\* generate_signal_from_analysis, lines 424-462: the ratios decide the side
Decided(sym, a, pcr, oi_ratio, s) ==
    [symbol           |-> sym,
     underlying       |-> a.underlying,
     atm_strike       |-> a.atm_strike,
     expiry           |-> a.expiry,
     strikes_analyzed |-> a.strikes_analyzed,
     strike_rows      |-> a.strike_rows,
     all_rows         |-> a.all_rows,
     pcr              |-> pcr,
     oi_ratio         |-> oi_ratio,
     side             |-> s.side,
     label            |-> s.label,
     strike_info      |-> analyze_strike_strength(a.strike_rows)]

\* the analysis a of a usable answer, with the symbol attached (line 517)
\* and the ratios and the decision of generate_signal_from_analysis
Analysed(sym, a) ==
    Decided(sym, a, OIRatio(a.all_rows), OIRatio(a.strike_rows),
            Sentiment(OIRatio(a.all_rows), OIRatio(a.strike_rows)))

\* run_all, lines 511-517 on what analyze_atm_strikes did
OutcomeOf(sym, a) ==
    IF a.raised THEN [kind |-> "raises", analysis |-> None]
    ELSE IF Falsy(a.value) THEN [kind |-> "error", analysis |-> None]
    ELSE [kind |-> "analysed", analysis |-> Analysed(sym, a.value)]

\* what becomes of each answer fetch_option_chain may give for a symbol:
\* "nodata" (line 507), "error" (analyze_atm_strikes returned None, line
\* 512), "raises" (analyze_atm_strikes raised) or "analysed"
Outcome(sym, raw) ==
    IF Falsy(raw) THEN [kind |-> "nodata", analysis |-> None]
    ELSE OutcomeOf(sym, analyze_atm_strikes(raw))

\* the outcomes of a sequence of answers
OutcomesOf(sym, rs) == [r \in 1..Len(rs) |-> Outcome(sym, rs[r])]

\* per configured symbol, the outcomes of the answers it may get
Outcomes == [i \in 1..Len(SYMBOLS) |-> OutcomesOf(SYMBOLS[i], Responses(SYMBOLS[i]))]

\* run_all, lines 506-509: fetch_option_chain gave nothing
NoData ==
    /\ InLoop
    /\ \E r \in 1..Len(Outcomes[sym_i]) : Outcomes[sym_i][r].kind = "nodata"
    /\ sym_i' = sym_i + 1
    /\ UNCHANGED <<call, disk, now, runs, pc, exc, snapshot, new_snapshot, analysis,
                   strike_i, candidates, metrics, best, all_signals,
                   dashboard_data, final_json, saves, write_failed, returned>>

\* run_all, lines 511-514: analyze_atm_strikes returned None
AnalysisError ==
    /\ InLoop
    /\ \E r \in 1..Len(Outcomes[sym_i]) : Outcomes[sym_i][r].kind = "error"
    /\ sym_i' = sym_i + 1
    /\ UNCHANGED <<call, disk, now, runs, pc, exc, snapshot, new_snapshot, analysis,
                   strike_i, candidates, metrics, best, all_signals,
                   dashboard_data, final_json, saves, write_failed, returned>>

\* run_all, line 511: analyze_atm_strikes raised, and nothing catches it
AnalysisRaises ==
    /\ InLoop
    /\ \E r \in 1..Len(Outcomes[sym_i]) : Outcomes[sym_i][r].kind = "raises"
    /\ pc' = "crashed"
    /\ exc' = "analyze_atm_strikes"
    /\ UNCHANGED <<call, disk, now, runs, snapshot, new_snapshot, sym_i, analysis,
                   strike_i, candidates, metrics, best, all_signals,
                   dashboard_data, final_json, saves, write_failed, returned>>

\* generate_signal_from_analysis returned None at line 462: no clear signal;
\* run_all appends the dashboard row and goes to the next symbol
NoClearSignal ==
    /\ InLoop
    /\ \E r \in 1..Len(Outcomes[sym_i]) :
          /\ Outcomes[sym_i][r].kind = "analysed"
          /\ Outcomes[sym_i][r].analysis.side = ""
          /\ analysis' = Outcomes[sym_i][r].analysis
          /\ dashboard_data' = Append(dashboard_data,
                DashboardRow(SYMBOLS[sym_i], Outcomes[sym_i][r].analysis, "", now))
    /\ sym_i' = sym_i + 1
    /\ UNCHANGED <<call, disk, now, runs, pc, exc, snapshot, new_snapshot,
                   strike_i, candidates, metrics, best, all_signals,
                   final_json, saves, write_failed, returned>>

\* generate_signal_from_analysis decided a side and calls the selector
BeginSelect ==
    /\ InLoop
    /\ \E r \in 1..Len(Outcomes[sym_i]) :
          /\ Outcomes[sym_i][r].kind = "analysed"
          /\ Outcomes[sym_i][r].analysis.side # ""
          /\ analysis' = Outcomes[sym_i][r].analysis
    /\ pc' = "select"
    /\ strike_i' = 1
    /\ candidates' = <<>>
    /\ metrics' = None
    /\ best' = None
    /\ UNCHANGED <<call, disk, now, runs, exc, snapshot, new_snapshot, sym_i,
                   all_signals, dashboard_data, final_json, saves,
                   write_failed, returned>>

\* the engine and the candidate list after one iteration
Iterated(it) ==
    /\ snapshot' = it.self.snapshot
    /\ new_snapshot' = it.self.new_snapshot
    /\ metrics' = [strike |-> it.strike, dropped |-> it.dropped,
                   metrics |-> it.metrics]
    /\ candidates' = IF it.dropped THEN candidates
                     ELSE Append(candidates, it.candidate)

\* one iteration of the selector's loop over strike_info
SelectStrike ==
    /\ pc = "select"
    /\ strike_i <= Len(analysis.strike_info)
    /\ Iterated(select_iteration([snapshot |-> snapshot, new_snapshot |-> new_snapshot],
                                 analysis, analysis.side,
                                 analysis.strike_info[strike_i], now))
    /\ strike_i' = strike_i + 1
    /\ UNCHANGED <<call, disk, now, runs, pc, exc, sym_i, analysis, best, all_signals,
                   dashboard_data, final_json, saves, write_failed, returned>>

\* the append of the signal moved into the loop over the strike rows
Selected_per_row(b) ==
    /\ best' = b
    /\ all_signals' =
          IF Falsy(b) THEN all_signals
          ELSE all_signals \o
               [k \in 1..Len(analysis.strike_info) |->
                   SignalOf(analysis, analysis.label, analysis.side, b,
                            analysis.pcr, analysis.oi_ratio, now)]
    /\ dashboard_data' = Append(dashboard_data,
          DashboardRow(analysis.symbol, analysis,
                       IF Falsy(b) THEN "" ELSE analysis.label, now))

\* lines 463-496 and 519-542 on the selector's result b
Selected(b) ==
    /\ best' = b
    /\ all_signals' =
          IF Falsy(b) THEN all_signals
          ELSE Append(all_signals,
                      SignalOf(analysis, analysis.label, analysis.side, b,
                               analysis.pcr, analysis.oi_ratio, now))
    /\ dashboard_data' = Append(dashboard_data,
          DashboardRow(analysis.symbol, analysis,
                       IF Falsy(b) THEN "" ELSE analysis.label, now))

\* the snapshot saved inside the loop over the symbols
EndSelect_saving ==
    /\ pc = "select"
    /\ strike_i > Len(analysis.strike_info)
    /\ Selected(select_result(candidates))
    /\ pc' = "loop"
    /\ sym_i' = sym_i + 1
    /\ disk' = save_snapshot(new_snapshot, disk, "ok").file
    /\ saves' = saves + 1
    /\ UNCHANGED <<call, now, runs, exc, snapshot, new_snapshot, analysis,
                   strike_i, candidates, metrics,
                   final_json, write_failed, returned>>

\* the selector returns; generate_signal_from_analysis builds the signal or
\* returns None; run_all appends the signal and the dashboard row
EndSelect ==
    /\ pc = "select"
    /\ strike_i > Len(analysis.strike_info)
    /\ Selected(select_result(candidates))
    /\ pc' = "loop"
    /\ sym_i' = sym_i + 1
    /\ UNCHANGED <<call, disk, now, runs, exc, snapshot, new_snapshot, analysis,
                   strike_i, candidates, metrics,
                   final_json, saves, write_failed, returned>>

\* run_all, lines 544-575: the loop is over; the top lists
Rank ==
    /\ pc = "loop"
    /\ sym_i > Len(SYMBOLS)
    /\ final_json' = [top_buy  |-> TopOf(all_signals, "BUY"),
                      top_sell |-> TopOf(all_signals, "SELL")]
    /\ pc' = "commit"
    /\ UNCHANGED <<call, disk, now, runs, exc, snapshot, new_snapshot, sym_i, analysis,
                   strike_i, candidates, metrics, best, all_signals,
                   dashboard_data, saves, write_failed, returned>>

\* run_all, lines 577-587: new_snapshot with the underlyings and the timestamp
Merged(ns, rows, clock) ==
    [MergeUnderlying(ns, rows) EXCEPT !.timestamp = ist_now_str(clock)]

\* run_all, lines 589-591 on what save_snapshot did
Written(merged, w, outcome) ==
    /\ new_snapshot' = merged
    /\ disk' = w.file
    /\ write_failed' = (outcome # "ok")
    /\ pc' = IF w.raised THEN "crashed" ELSE "done"
    /\ exc' = IF w.raised THEN "save_snapshot" ELSE "none"
    /\ returned' = IF w.raised THEN None ELSE all_signals

\* save_snapshot(self.new_snapshot) at line 589
Saved(merged, outcome) == Written(merged, save_snapshot(merged, disk, outcome), outcome)

\* run_all, lines 577-591: the underlyings and the timestamp go into
\* new_snapshot, save_snapshot writes it, run_all returns all_signals
Commit ==
    /\ pc = "commit"
    /\ \E outcome \in SaveOutcomes :
          Saved(Merged(new_snapshot, dashboard_data, now), outcome)
    /\ saves' = saves + 1
    /\ UNCHANGED <<call, now, runs, snapshot, sym_i, analysis, strike_i, candidates,
                   metrics, best, all_signals, dashboard_data, final_json>>

Next ==
    \/ Tick
    \/ Construct
    \/ NoData
    \/ AnalysisError
    \/ AnalysisRaises
    \/ NoClearSignal
    \/ BeginSelect
    \/ SelectStrike
    \/ EndSelect
    \/ Rank
    \/ Commit

Spec == Init /\ [][Next]_vars

-----------------------------------------------------------------------------------------------------------------------------------------------------
(* Single calls of the engine's functions, on arguments drawn from grids. *)

\* the variables of the runs of main()
run_vars == <<disk, now, runs, pc, exc, snapshot, new_snapshot, sym_i, analysis,
              strike_i, candidates, metrics, best, all_signals, dashboard_data,
              final_json, saves, write_failed, returned>>

InitCalls ==
    /\ disk = FileMissing
    /\ Idle
    /\ call = NoCall

\* ratios of open interest, in hundredths: on, next to and between the
\* thresholds of the sentiment rules
Ratios == {Rat(n, 100) : n \in {0, 50, 60, 65, 70, 75, 80, 100, 120, 125,
                                 130, 140, 150, 160, 300}}

\* generate_signal_from_analysis, lines 433-462, on a pair of ratios
CallSentiment ==
    /\ call = NoCall
    /\ \E pcr \in Ratios, oi_ratio \in Ratios :
          call' = [op |-> "sentiment", pcr |-> pcr, oi_ratio |-> oi_ratio,
                   out |-> Sentiment(pcr, oi_ratio)]
    /\ UNCHANGED run_vars

\* values of a metric whose clamp bound is b: beyond the bound, on it and
\* inside it
Around(b) == {R(-2 * b), R(-b), Rat(b, 4), R(b), R(3 * b)}

\* score_candidate on a metrics dict
CallScore ==
    /\ call = NoCall
    /\ \E pt \in Around(3), ed \in Around(5), vd \in Around(10),
          ivd \in Around(5), os \in Around(1000) :
          call' = [op |-> "score",
                   m  |-> [price_trend_pct |-> pt, ema_delta |-> ed,
                           vwap_dev_pct |-> vd, iv_delta |-> ivd, oi_speed |-> os],
                   out |-> score_candidate([price_trend_pct |-> pt, ema_delta |-> ed,
                                            vwap_dev_pct |-> vd, iv_delta |-> ivd,
                                            oi_speed |-> os])]
    /\ UNCHANGED run_vars

\* timestamps a prior snapshot may hold: none, a string strptime rejects,
\* or a time in seconds
PriorSeconds == {0, 30, 90, 3000}
PriorTimestamps == {None, <<"bad", 0>>} \cup {<<"ts", p>> : p \in PriorSeconds}

\* the clock at the call, in ticks
CallClocks == {0, 1, 2, 16, 80}

\* changes in open interest
CoiValues == {-50, 100, 150}

\* the engine with a prior snapshot that holds the timestamp ts and, when
\* has_prev, the entry prev_entry of strike 100 of NIFTY
EngineWith(ts, has_prev, prev_entry, clock) ==
    [snapshot |->
        [timestamp |-> ts,
         symbols   |-> IF has_prev
                       THEN [NIFTY |-> [strikes |-> ("100" :> prev_entry)]]
                       ELSE EmptyDict],
     new_snapshot |-> [timestamp |-> ist_now_str(clock), symbols |-> EmptyDict]]

\* compute_oi_speed for strike 100 of NIFTY
CallOiSpeed ==
    /\ call = NoCall
    /\ \E ts \in PriorTimestamps, clock \in CallClocks, has_prev \in BOOLEAN,
          prev_coi \in CoiValues, coi \in CoiValues :
          call' = [op |-> "oi_speed", ts |-> ts, clock |-> clock,
                   has_prev |-> has_prev, prev_coi |-> prev_coi, coi |-> coi,
                   out |-> compute_oi_speed(
                              EngineWith(ts, has_prev, [coi |-> prev_coi], clock),
                              "NIFTY", 100, coi, clock)]
    /\ UNCHANGED run_vars

\* a strike's entry as an earlier run left it
PriorStrike ==
    [ema_ltp |-> R(8), cum_vwap_num |-> R(800), cum_vol |-> 100,
     iv |-> R(25), coi |-> 50]

\* the engine e with the underlying u recorded for NIFTY in its prior snapshot
WithPriorUnderlying(e, u) ==
    IF u = None THEN e
    ELSE [e EXCEPT !.snapshot.symbols = SymbolsWithUnderlying(@, "NIFTY", u)]

\* the analyses of NIFTY that decide on a side
SidedAnalyses ==
    {Outcomes[1][r].analysis : r \in {q \in 1..Len(Outcomes[1]) :
        /\ Outcomes[1][q].kind = "analysed"
        /\ Outcomes[1][q].analysis.side # ""}}

\* the metric computations of one strike, and again on the engine as the
\* first invocation left it
MetricsTwice(once, a, info, clock) ==
    [once  |-> once,
     twice |-> select_iteration(once.self, a, a.side, info, clock)]

CallMetricsTwice ==
    /\ call = NoCall
    /\ \E ts \in {None, <<"ts", 0>>}, has_prev \in BOOLEAN, u \in {None, R(98)},
          a \in SidedAnalyses, clock \in {1, 2} :
          \E k \in 1..Len(a.strike_info) :
             call' = [op |-> "metrics_twice", has_prev |-> has_prev,
                      strike |-> a.strike_info[k].strike,
                      out |-> MetricsTwice(
                                 select_iteration(
                                    WithPriorUnderlying(
                                       EngineWith(ts, has_prev, PriorStrike, clock), u),
                                    a, a.side, a.strike_info[k], clock),
                                 a, a.strike_info[k], clock)]
    /\ UNCHANGED run_vars

\* the signals handed to the ranking number up to this many
MaxSignals == 5

\* label and score of a signal
SignalKinds ==
    {<<"BUY", 10>>, <<"BUY", 30>>, <<"STRONG BUY", 20>>,
     <<"SELL", -10>>, <<"SELL", 20>>, <<"STRONG SELL", 20>>}

\* all_signals with the labels and scores of kinds, one signal per symbol
SignalsOf(kinds) ==
    [g \in DOMAIN kinds |->
        [symbol |-> g, signal |-> kinds[g][1], score |-> R(kinds[g][2])]]

\* run_all, lines 564-570, on a list of signals
CallRank ==
    /\ call = NoCall
    /\ \E n \in 0..MaxSignals :
          \E kinds \in [1..n -> SignalKinds] :
             call' = [op |-> "rank",
                      signals |-> SignalsOf(kinds),
                      out |-> [top_buy  |-> TopOf(SignalsOf(kinds), "BUY"),
                               top_sell |-> TopOf(SignalsOf(kinds), "SELL")]]
    /\ UNCHANGED run_vars

NextCalls ==
    \/ CallSentiment
    \/ CallScore
    \/ CallOiSpeed
    \/ CallMetricsTwice
    \/ CallRank

SpecCalls == InitCalls /\ [][NextCalls]_vars

-----
(* Properties of the engine *)

\* the symbols of the generation a file holds
Generation(file) ==
    IF file.kind = "object" THEN Get(file.value, "symbols", EmptyDict) ELSE EmptyDict

\* the strikes a generation records for a symbol
StrikesIn(symbols, sym) ==
    IF sym \in DOMAIN symbols THEN Get(symbols[sym], "strikes", EmptyDict)
    ELSE EmptyDict

\* what a generation records for a strike of a symbol
EntryIn(symbols, sym, strike) == Get(StrikesIn(symbols, sym), Str(strike), EmptyDict)

\* a step of the selector's loop over the strikes
SelectorStep == pc = "select" /\ strike_i' = strike_i + 1

\* C1: from one persisted generation to the next, the cum_vol and the
\* cum_vwap_num of every (symbol, strike) are still there and have not
\* decreased, whatever happened to the symbol in the run between them.
C1_AccumulatorsNeverReset ==
    [][(disk.kind = "object" /\ disk'.kind = "object") =>
        \A sym \in DOMAIN Generation(disk) :
            \A k \in DOMAIN StrikesIn(Generation(disk), sym) :
                /\ k \in DOMAIN StrikesIn(Generation(disk'), sym)
                /\ StrikesIn(Generation(disk'), sym)[k].cum_vol
                      >= StrikesIn(Generation(disk), sym)[k].cum_vol
                /\ RLe(StrikesIn(Generation(disk), sym)[k].cum_vwap_num,
                       StrikesIn(Generation(disk'), sym)[k].cum_vwap_num)]_vars

\* C2: for a strike without an entry in a prior generation that has a valid
\* timestamp and holds other strikes, the EMA delta, the VWAP deviation, the
\* IV delta and the OI velocity are all zero, and the next generation
\* records the observation as the baseline.
C2_AbsentStrikeIsColdStart ==
    (/\ pc = "select"
     /\ ~Falsy(metrics)
     /\ ~Falsy(snapshot.timestamp)
     /\ DOMAIN StrikesIn(snapshot.symbols, analysis.symbol) # {}
     /\ Str(metrics.strike) \notin DOMAIN StrikesIn(snapshot.symbols, analysis.symbol))
    => /\ metrics.metrics.ema_delta = Zero
       /\ metrics.metrics.vwap_dev_pct = Zero
       /\ metrics.metrics.iv_delta = Zero
       /\ metrics.metrics.oi_speed = Zero
       /\ EntryIn(new_snapshot.symbols, analysis.symbol, metrics.strike).ema_ltp
             = metrics.metrics.ltp
       /\ EntryIn(new_snapshot.symbols, analysis.symbol, metrics.strike).iv
             = metrics.metrics.iv_now
       /\ EntryIn(new_snapshot.symbols, analysis.symbol, metrics.strike).coi
             = metrics.metrics.coi

\* C3: whatever answer a symbol's fetch gives, run_all goes on with that
\* symbol's selection or with the next symbol: no exception escapes.
C3_SymbolFailureSkipsSymbol ==
    [][(pc = "loop" /\ sym_i <= Len(SYMBOLS)) => pc' \in {"loop", "select"}]_vars

\* C4: building the engine never raises, and from a file that is missing,
\* unreadable or not an object the engine starts from the empty structure.
C4_LoadAlwaysUsable ==
    [][(runs' = runs + 1) =>
        /\ pc' = "loop"
        /\ (disk.kind # "object" => snapshot' = EmptySnapshot)]_vars

\* C5: once the engine is built, no step of the run changes the prior
\* snapshot.
C5_PriorSnapshotReadOnly ==
    [][(pc \in {"loop", "select", "commit"}) => (snapshot' = snapshot)]_vars

\* a strike has been recorded in new_snapshot while the prior snapshot
\* holds strikes of the same symbol
C5_Witness ==
    /\ pc = "select"
    /\ ~Falsy(metrics)
    /\ DOMAIN StrikesIn(snapshot.symbols, analysis.symbol) # {}
    /\ Str(metrics.strike) \in DOMAIN StrikesIn(new_snapshot.symbols, analysis.symbol)

\* C6: the file is not written while the symbols are processed; the one
\* save of a run happens after the last symbol and the ranking, and a run
\* that ends in an exception has saved nothing.
C6_CommitOnceAtEnd ==
    [][/\ (pc \in {"loop", "select"} => disk' = disk /\ saves' = saves)
       /\ (pc = "commit" => saves = 0 /\ sym_i > Len(SYMBOLS))
       /\ ((pc' = "done" /\ pc # "done") => pc = "commit" /\ saves' = 1)
       /\ (pc' = "crashed" => disk' = disk /\ saves' = 0)]_vars

\* a second run has committed its generation, signals included
C6_Witness ==
    /\ pc = "done"
    /\ runs = 2
    /\ saves = 1
    /\ disk = FileObject(new_snapshot)
    /\ Len(all_signals) > 0

\* C7: after a failed write run_all has returned, without an exception, the
\* signals of the run.
C7_WriteFailureNonFatal ==
    write_failed => (pc = "done" /\ exc = "none" /\ returned = all_signals)

\* a run with signals whose write failed
C7_Witness == write_failed /\ pc = "done" /\ Len(returned) > 0

\* the strike the selector's loop is at, and its side's fields
InfoAt(k) == analysis.strike_info[k]
OwnSide(k) == SideOf(analysis.side, InfoAt(k))

\* the strike's own-side volume is below 10 and its combined open interest
\* below 50
Illiquid(k) == OwnSide(k).vol < 10 /\ InfoAt(k).ce_oi + InfoAt(k).pe_oi < 50

\* the five fields a strike contributes to the next generation
StateFields == {"ema_ltp", "cum_vwap_num", "cum_vol", "iv", "coi"}

\* C8 as stated: a strike the liquidity filter drops leaves the
\* in-progress next-generation snapshot unchanged.
C8_DroppedStrikeUntouched ==
    [][(SelectorStep /\ metrics'.dropped) => (new_snapshot' = new_snapshot)]_vars

\* C8 amended: the selector computes and records the metrics of every
\* strike of the window, dropped or not; the filter only keeps a dropped
\* strike out of the candidates.
C8_EveryStrikeRecorded ==
    [][SelectorStep =>
        /\ StateFields \subseteq
              DOMAIN EntryIn(new_snapshot'.symbols, analysis.symbol, InfoAt(strike_i).strike)
        /\ EntryIn(new_snapshot'.symbols, analysis.symbol, InfoAt(strike_i).strike).iv
              = OwnSide(strike_i).iv
        /\ EntryIn(new_snapshot'.symbols, analysis.symbol, InfoAt(strike_i).strike).coi
              = OwnSide(strike_i).coi
        /\ metrics'.dropped = Illiquid(strike_i)
        /\ Len(candidates') = Len(candidates) + (IF Illiquid(strike_i) THEN 0 ELSE 1)]_vars

\* a dropped strike whose fields are in new_snapshot
C8_Witness ==
    /\ pc = "select"
    /\ ~Falsy(metrics)
    /\ metrics.dropped
    /\ StateFields \subseteq
          DOMAIN EntryIn(new_snapshot.symbols, analysis.symbol, metrics.strike)

\* C9: of the strikes the loop has seen, the candidates are exactly those
\* that are not both low in volume and low in combined open interest, and
\* the selector's result is one of the candidates.
C9_OnlyIlliquidDropped ==
    /\ pc = "select" =>
          \A k \in 1..(strike_i - 1) :
              Illiquid(k) <=>
                  ~\E c \in 1..Len(candidates) : candidates[c].strike = InfoAt(k).strike
    /\ ~Falsy(best) => \E c \in 1..Len(candidates) : candidates[c] = best

\* the loop is over, its last strike was dropped though it scores above
\* every candidate, and a candidate with a volume below 10 was kept
C9_Witness ==
    /\ pc = "select"
    /\ strike_i > Len(analysis.strike_info)
    /\ ~Falsy(metrics)
    /\ metrics.dropped
    /\ candidates # <<>>
    /\ \A c \in 1..Len(candidates) :
          RLt(candidates[c].score, score_candidate(metrics.metrics))
    /\ \E c \in 1..Len(candidates) : candidates[c].volume < 10

\* C10: the selector's result is a candidate with the highest score and,
\* among those with that score, the highest volume; there is no result
\* exactly when there is no candidate.
C10_BestIsMaximal ==
    pc # "select" =>
        /\ Falsy(best) <=> Len(candidates) = 0
        /\ ~Falsy(best) =>
              /\ \E c \in 1..Len(candidates) : candidates[c] = best
              /\ \A c \in 1..Len(candidates) :
                    /\ ~RLt(best.score, candidates[c].score)
                    /\ candidates[c].score = best.score
                          => candidates[c].volume <= best.volume

\* two candidates with the same score, and the result is the one with the
\* higher volume
C10_Witness ==
    /\ pc # "select"
    /\ ~Falsy(best)
    /\ \E c \in 1..Len(candidates) :
          /\ candidates[c].score = best.score
          /\ candidates[c].volume < best.volume

\* a ratio is at least, or at most, n hundredths
AtLeast(x, n) == x[1] * 100 >= n * x[2]
AtMost(x, n) == x[1] * 100 <= n * x[2]

\* the counters of the rule table
TableBullish(pcr, loc) ==
    (IF AtLeast(pcr, 150) THEN 2 ELSE IF AtLeast(pcr, 120) THEN 1 ELSE 0)
    + (IF AtLeast(loc, 130) THEN 1 ELSE 0)
TableBearish(pcr, loc) ==
    (IF AtMost(pcr, 60) THEN 2 ELSE IF AtMost(pcr, 80) THEN 1 ELSE 0)
    + (IF ~AtLeast(loc, 130) /\ AtMost(loc, 70) THEN 1 ELSE 0)

\* the decision of the rule table: the side and the label
TableDecision(bullish, bearish) ==
    IF bullish >= 3 THEN <<"CE", "STRONG BUY">>
    ELSE IF bullish >= 2 THEN <<"CE", "BUY">>
    ELSE IF bearish >= 3 THEN <<"PE", "STRONG SELL">>
    ELSE IF bearish >= 2 THEN <<"PE", "SELL">>
    ELSE <<"", "">>

\* C11: for every pair of ratios the sentiment decision is the one of the
\* rule table: the bullish and the bearish counter, then the first rule
\* that matches.
C11_SentimentIsRuleTable ==
    call.op = "sentiment" =>
        /\ call.out.bullish = TableBullish(call.pcr, call.oi_ratio)
        /\ call.out.bearish = TableBearish(call.pcr, call.oi_ratio)
        /\ <<call.out.side, call.out.label>>
              = TableDecision(TableBullish(call.pcr, call.oi_ratio),
                              TableBearish(call.pcr, call.oi_ratio))

\* the PCR on its threshold 1.5 with the local ratio on its threshold 1.3:
\* a strong buy of the call
C11_Witness ==
    /\ call.op = "sentiment"
    /\ call.pcr = Rat(150, 100)
    /\ call.oi_ratio = Rat(130, 100)
    /\ call.out.side = "CE"
    /\ call.out.label = "STRONG BUY"

\* x brought into [-b, b], as a fraction of b
Saturated(x, b) ==
    IF RLt(R(b), x) THEN R(1) ELSE IF RLt(x, R(-b)) THEN R(-1) ELSE RDiv(x, R(b))

\* 100 times the weighted sum of the five saturated metrics, the IV delta
\* with its sign inverted, to two decimals
TableScore(m) ==
    Round(RAdd(RAdd(RAdd(RAdd(RMul(R(30), Saturated(m.price_trend_pct, 3)),
                              RMul(R(20), Saturated(m.ema_delta, 5))),
                         RMul(R(15), Saturated(m.vwap_dev_pct, 10))),
                    RMul(R(-20), Saturated(m.iv_delta, 5))),
               RMul(R(15), Saturated(m.oi_speed, 1000))), 2)

\* C12: the score is 100 times the weighted sum of the metrics, each
\* saturated at its clamp bound, so an input beyond a bound scores as the
\* bound does, and the score lies in [-100, 100].
C12_ScoreSaturates ==
    call.op = "score" =>
        /\ call.out = TableScore(call.m)
        /\ RLe(R(-100), call.out)
        /\ RLe(call.out, R(100))

\* a price trend of +9% with every other metric beyond its bound on the
\* buyer's side: the score is 100, as with +3%
C12_Witness ==
    /\ call.op = "score"
    /\ call.m.price_trend_pct = R(9)
    /\ call.m.ema_delta = R(15)
    /\ call.m.vwap_dev_pct = R(30)
    /\ call.m.iv_delta = R(-10)
    /\ call.m.oi_speed = R(3000)
    /\ call.out = R(100)

\* the selector has just computed the metrics of a strike
MetricsAt == pc = "select" /\ ~Falsy(metrics)

\* what the prior generation holds, and what the next generation records,
\* for the strike whose metrics were just computed
PriorEntry == EntryIn(snapshot.symbols, analysis.symbol, metrics.strike)
NewEntry == EntryIn(new_snapshot.symbols, analysis.symbol, metrics.strike)

\* C13: the first observation of a strike is recorded as its EMA, with an
\* EMA delta of 0; with an EMA e in the prior generation the price p is
\* recorded as 0.5 * p + 0.5 * e and the EMA delta is that value minus e.
C13_EmaRecurrence ==
    MetricsAt =>
        IF "ema_ltp" \notin DOMAIN PriorEntry
        THEN /\ NewEntry.ema_ltp = metrics.metrics.ltp
             /\ metrics.metrics.ema_delta = Zero
        ELSE /\ NewEntry.ema_ltp
                   = RAdd(RMul(Rat(1, 2), metrics.metrics.ltp),
                          RMul(Rat(1, 2), PriorEntry.ema_ltp))
             /\ metrics.metrics.ema_delta
                   = Round(RSub(NewEntry.ema_ltp, PriorEntry.ema_ltp), 6)

\* a strike first seen at 10 and now at 20: the EMA 15 is recorded and the
\* EMA delta is 5
C13_Witness ==
    /\ MetricsAt
    /\ "ema_ltp" \in DOMAIN PriorEntry
    /\ PriorEntry.ema_ltp = R(10)
    /\ metrics.metrics.ltp = R(20)
    /\ NewEntry.ema_ltp = R(15)
    /\ metrics.metrics.ema_delta = R(5)

\* the sums the prior generation holds for the strike, 0 without an entry
PriorCumNum == Get(PriorEntry, "cum_vwap_num", Zero)
PriorCumVol == Get(PriorEntry, "cum_vol", 0)

\* C14: the recorded cum_vwap_num and cum_vol are the prior generation's
\* sums plus price * volume and volume of this run, so over consecutive
\* committed runs they are the sums over all of them; vwap is their
\* quotient when cum_vol > 0, else undefined with a deviation of 0.
C14_VwapIsLifetimeAverage ==
    MetricsAt =>
        /\ NewEntry.cum_vwap_num
              = RAdd(PriorCumNum, RMul(metrics.metrics.ltp, R(metrics.metrics.volume)))
        /\ NewEntry.cum_vol = PriorCumVol + metrics.metrics.volume
        /\ IF NewEntry.cum_vol > 0
           THEN metrics.metrics.vwap = RDiv(NewEntry.cum_vwap_num, R(NewEntry.cum_vol))
           ELSE metrics.metrics.vwap = None /\ metrics.metrics.vwap_dev_pct = Zero
        /\ (NewEntry.cum_vol > 0 /\ metrics.metrics.vwap # Zero) =>
              metrics.metrics.vwap_dev_pct
                 = Round(RMul(RDiv(RSub(metrics.metrics.ltp, metrics.metrics.vwap),
                                   metrics.metrics.vwap), R(100)), 4)

\* (10, 100) in the first run and (20, 100) in the second: the sums are
\* 3000 and 200 and the vwap is 15
C14_Witness ==
    /\ MetricsAt
    /\ PriorCumNum = R(1000)
    /\ PriorCumVol = 100
    /\ metrics.metrics.ltp = R(20)
    /\ metrics.metrics.volume = 100
    /\ NewEntry.cum_vwap_num = R(3000)
    /\ NewEntry.cum_vol = 200
    /\ metrics.metrics.vwap = R(15)

\* the call's prior timestamp is a time
Timed == call.ts # None /\ call.ts[1] = "ts"

\* the seconds from the prior timestamp to the clock of the call
Elapsed == call.clock * TickSeconds - call.ts[2]

\* what the call recorded for strike 100 of NIFTY
CallEntry == EntryIn(call.out.self.new_snapshot.symbols, "NIFTY", 100)

C16_NoTimestampNoVelocity ==
    (call.op = "oi_speed" /\ ~Timed) =>
        /\ call.out.speed = Zero
        /\ "coi" \in DOMAIN CallEntry
        /\ CallEntry.coi = call.coi

\* a prior whose timestamp does not parse, with coi going from 100 to 150
C16_Witness ==
    /\ call.op = "oi_speed"
    /\ call.ts = <<"bad", 0>>
    /\ call.has_prev
    /\ call.prev_coi = 100
    /\ call.coi = 150
    /\ call.out.speed = Zero
    /\ CallEntry.coi = 150

\* C17: the metric computations invoked again for the same prior snapshot,
\* symbol, strike, observation and clock, with no commit in between, give
\* the same metrics and leave the engine as the first invocation left it.
C17_MetricsIdempotent ==
    (call.op = "metrics_twice") =>
        /\ call.out.twice.metrics = call.out.once.metrics
        /\ call.out.twice.self = call.out.once.self

\* a strike with accumulators in the prior snapshot, computed twice: the
\* volume sum holds the observation once
C17_Witness ==
    /\ call.op = "metrics_twice"
    /\ call.has_prev
    /\ call.strike = 100
    /\ call.out.once.metrics.volume > 0
    /\ EntryIn(call.out.twice.self.new_snapshot.symbols, "NIFTY", 100).cum_vol
          = 100 + call.out.once.metrics.volume

\* the prior snapshot is empty: no timestamp and no symbols
EmptyPrior ==
    /\ Falsy(Get(snapshot, "timestamp", None))
    /\ Falsy(Get(snapshot, "symbols", EmptyDict))

\* C18: with an empty prior snapshot every metric of a strike is 0, every
\* candidate scores 0, the next generation records for the strike the
\* observation alone (ema_ltp = ltp, cum_vwap_num = ltp * volume,
\* cum_vol = volume, iv, coi), and the commit writes these entries.
C18_ColdStartNeutral ==
    /\ (MetricsAt /\ EmptyPrior) =>
          /\ metrics.metrics.price_trend_pct = Zero
          /\ metrics.metrics.ema_delta = Zero
          /\ metrics.metrics.vwap_dev_pct = Zero
          /\ metrics.metrics.iv_delta = Zero
          /\ metrics.metrics.oi_speed = Zero
          /\ \A c \in 1..Len(candidates) : candidates[c].score = Zero
          /\ DOMAIN NewEntry = {"ema_ltp", "cum_vwap_num", "cum_vol", "iv", "coi"}
          /\ NewEntry.ema_ltp = metrics.metrics.ltp
          /\ NewEntry.cum_vwap_num
                = RMul(metrics.metrics.ltp, R(metrics.metrics.volume))
          /\ NewEntry.cum_vol = metrics.metrics.volume
          /\ NewEntry.iv = metrics.metrics.iv_now
          /\ NewEntry.coi = metrics.metrics.coi
    /\ (pc = "done" /\ EmptyPrior /\ ~write_failed) =>
          \A sym \in DOMAIN new_snapshot.symbols :
             StrikesIn(Generation(disk), sym) = StrikesIn(new_snapshot.symbols, sym)

\* the first run of the program scores a traded strike
C18_Witness ==
    /\ MetricsAt
    /\ EmptyPrior
    /\ Len(candidates) > 0
    /\ metrics.metrics.volume > 0
    /\ metrics.metrics.iv_now # Zero
    /\ NewEntry.cum_vwap_num = RMul(metrics.metrics.ltp, R(metrics.metrics.volume))

\* a run on an empty prior has committed entries of strikes
C18_Committed ==
    /\ pc = "done"
    /\ EmptyPrior
    /\ ~write_failed
    /\ \E sym \in DOMAIN new_snapshot.symbols :
          StrikesIn(Generation(disk), sym) # EmptyDict

\* the underlying a generation holds for a symbol, None without one
UnderlyingIn(symbols, sym) ==
    Get(Get(Get(symbols, sym, EmptyDict), "meta", EmptyDict), "underlying", None)

\* the underlying the prior generation holds for the symbol being analysed
PriorUnderlying == UnderlyingIn(snapshot.symbols, analysis.symbol)

\* C19: the price trend of a symbol is (underlying - prev) / prev * 100,
\* rounded to four decimals, prev being the underlying the prior generation
\* holds for the symbol, and 0 without one; the prior generation is the one
\* the preceding run committed, and a commit writes the underlying of every
\* analysed symbol, with or without a signal.
C19_PriceTrendFromCommitted ==
    /\ MetricsAt =>
          metrics.metrics.price_trend_pct
             = IF PriorUnderlying = None THEN Zero
               ELSE Round(RMul(RDiv(RSub(analysis.underlying, PriorUnderlying),
                                    PriorUnderlying), R(100)), 4)
    /\ (pc \in {"loop", "select", "commit"} /\ disk.kind = "object") =>
          snapshot.symbols = Generation(disk)
    /\ (pc = "done" /\ ~write_failed) =>
          \A d \in 1..Len(dashboard_data) :
             UnderlyingIn(Generation(disk), dashboard_data[d].symbol)
                = dashboard_data[d].current_price

\* BANKNIFTY stood at 101 in a run that gave no signal for it and recorded
\* no strike, and stands at 100 now: the trend is -0.9901
C19_Witness ==
    /\ MetricsAt
    /\ analysis.symbol = "BANKNIFTY"
    /\ PriorUnderlying = R(101)
    /\ StrikesIn(snapshot.symbols, "BANKNIFTY") = EmptyDict
    /\ analysis.underlying = R(100)
    /\ metrics.metrics.price_trend_pct = Rat(-9901, 10000)

\* the calls of the chain and of the ATM window hold no open interest
ZeroCallOi(a) ==
    /\ SumOI(a.all_rows, "CE") = 0
    /\ SumOI(a.strike_rows, "CE") = 0

\* C20: with no open interest in the calls the ratios take a neutral value
\* that adds to neither counter, so the symbol's signal is neither SELL nor
\* STRONG SELL.
C20_ZeroCallOiNeverSells ==
    (~Falsy(analysis) /\ ZeroCallOi(analysis)) =>
        /\ Sentiment(analysis.pcr, analysis.oi_ratio).bearish = 0
        /\ \A g \in 1..Len(all_signals) :
              all_signals[g].symbol = analysis.symbol =>
                 all_signals[g].signal \notin {"SELL", "STRONG SELL"}

\* the elements of a list
Elements(seq) == {seq[k] : k \in 1..Len(seq)}

\* top is a top list of the signals whose label is in labels: at most three
\* of them, highest score first, none of the others with a higher score
IsTopList(top, signals, labels) ==
    /\ Len(top) <= 3
    /\ Elements(top) \subseteq Elements(signals)
    /\ \A k \in 1..Len(top) : top[k].signal \in labels
    /\ \A k \in 1..Len(top) : \A l \in 1..Len(top) :
          k < l => ~RLt(top[k].score, top[l].score)
    /\ \A sg \in Elements(signals) \ Elements(top) :
          sg.signal \in labels =>
             \A k \in 1..Len(top) : ~RLt(top[k].score, sg.score)

\* C21: the top-buy list holds at most 3 of the run's signals, all labelled
\* BUY or STRONG BUY, in descending order of score, and no such signal
\* outside the list scores higher than one inside; likewise the top-sell
\* list with SELL and STRONG SELL.
C21_TopListsRanked ==
    (call.op = "rank") =>
        /\ IsTopList(call.out.top_buy, call.signals, {"BUY", "STRONG BUY"})
        /\ IsTopList(call.out.top_sell, call.signals, {"SELL", "STRONG SELL"})

\* four buy signals of which the one scoring 10 is left out, and a sell
\* signal
C21_Witness ==
    /\ call.op = "rank"
    /\ Len(call.signals) = 5
    /\ Len(call.out.top_buy) = 3
    /\ Len(call.out.top_sell) = 1
    /\ call.out.top_buy[1].score = R(30)
    /\ \E sg \in Elements(call.signals) \ Elements(call.out.top_buy) :
          sg.signal = "BUY" /\ sg.score = R(10)

\* run_all is done with a symbol
SymbolDone == pc \in {"loop", "select"} /\ sym_i' = sym_i + 1

\* the selector ran for the symbol and a strike of the window passed the
\* liquidity filter
Survivor ==
    /\ pc = "select"
    /\ analysis.side # ""
    /\ \E k \in 1..Len(analysis.strike_info) : ~Illiquid(k)

\* the signal a step appended
NewSignal == all_signals'[Len(all_signals')]

\* the signals of a run are of distinct symbols, and each has the side of
\* its label
SignalsWellFormed ==
    /\ \A g \in 1..Len(all_signals) : \A h \in 1..Len(all_signals) :
          all_signals[g].symbol = all_signals[h].symbol => g = h
    /\ \A g \in 1..Len(all_signals) :
          \/ /\ all_signals[g].signal \in {"BUY", "STRONG BUY"}
             /\ all_signals[g].option_type = "CE"
          \/ /\ all_signals[g].signal \in {"SELL", "STRONG SELL"}
             /\ all_signals[g].option_type = "PE"

\* a symbol gets a signal when the selector ran for it and a strike
\* survived, and no signal otherwise
SignalWhenSurvivor ==
    /\ (SymbolDone /\ Survivor) =>
          /\ Len(all_signals') = Len(all_signals) + 1
          /\ SubSeq(all_signals', 1, Len(all_signals)) = all_signals
          /\ NewSignal.symbol = SYMBOLS[sym_i]
          /\ \E k \in 1..Len(analysis.strikes_analyzed) :
                analysis.strikes_analyzed[k] = NewSignal.strike
    /\ (pc \in {"loop", "select"} /\ ~(SymbolDone /\ Survivor)) =>
          all_signals' = all_signals

\* C22: a run produces at most one signal per symbol; a symbol gets its
\* signal exactly when its chain was analysed, a side was decided and a
\* strike of the ATM window passed the liquidity filter; the signal's side
\* is the side of its label and its strike is a strike of the ATM window.
C22_OneSignalPerSymbol ==
    []SignalsWellFormed /\ [][SignalWhenSurvivor]_vars

\* NIFTY got a signal; for BANKNIFTY a side was decided and every strike
\* was dropped, so it got none
C22_Witness ==
    /\ pc = "loop"
    /\ sym_i = 3
    /\ Len(all_signals) = 1
    /\ all_signals[1].symbol = "NIFTY"
    /\ ~Falsy(analysis)
    /\ analysis.symbol = "BANKNIFTY"
    /\ analysis.side # ""
    /\ Falsy(best)

\* both symbols got a signal, a call for one and a put for the other
C22_TwoSignals ==
    /\ Len(all_signals) = 2
    /\ all_signals[1].option_type = "CE"
    /\ all_signals[2].option_type = "PE"

\* every strike entry of a generation holds the five fields
Complete(symbols) ==
    \A sym \in DOMAIN symbols :
        \A key \in DOMAIN StrikesIn(symbols, sym) :
            DOMAIN StrikesIn(symbols, sym)[key] = StateFields

\* the entry the step records for its strike, and the prior one
StepEntry == EntryIn(new_snapshot'.symbols, analysis.symbol, InfoAt(strike_i).strike)
StepPrior == EntryIn(snapshot.symbols, analysis.symbol, InfoAt(strike_i).strike)

\* the five fields of the step's entry come from the one observation
\* OwnSide(strike_i) of the strike, and no other entry changes
OneObservation ==
    /\ StepEntry.ema_ltp
          = ema_update(Get(StepPrior, "ema_ltp", None), OwnSide(strike_i).ltp, EMA_PERIOD)
    /\ StepEntry.cum_vwap_num
          = RAdd(Get(StepPrior, "cum_vwap_num", Zero),
                 RMul(OwnSide(strike_i).ltp, R(OwnSide(strike_i).vol)))
    /\ StepEntry.cum_vol = Get(StepPrior, "cum_vol", 0) + OwnSide(strike_i).vol
    /\ StepEntry.iv = OwnSide(strike_i).iv
    /\ StepEntry.coi = OwnSide(strike_i).coi
    /\ \A sym \in DOMAIN new_snapshot'.symbols :
          \A key \in DOMAIN StrikesIn(new_snapshot'.symbols, sym) :
             (sym # analysis.symbol \/ key # Str(InfoAt(strike_i).strike)) =>
                /\ key \in DOMAIN StrikesIn(new_snapshot.symbols, sym)
                /\ StrikesIn(new_snapshot'.symbols, sym)[key]
                      = StrikesIn(new_snapshot.symbols, sym)[key]

\* C23: between the processing of two strikes, and in the committed
\* generation, every strike entry of the next generation holds all of
\* ema_ltp, cum_vwap_num, cum_vol, iv and coi, and the processing of a
\* strike writes the five of its entry from the one observation of that
\* strike and touches no other entry.
C23_StrikeRecordedWhole ==
    /\ [](Complete(new_snapshot.symbols) /\ Complete(Generation(disk)))
    /\ [][SelectorStep => OneObservation]_vars

\* between the two strikes of a window: the first one's entry is there
C23_Witness ==
    /\ pc = "select"
    /\ strike_i = 2
    /\ Len(analysis.strike_info) >= 2
    /\ DOMAIN EntryIn(new_snapshot.symbols, analysis.symbol, InfoAt(1).strike) = StateFields
    /\ EntryIn(new_snapshot.symbols, analysis.symbol, InfoAt(2).strike) = EmptyDict

\* the decision with the bearish rules tried first
SellFirst(bullish, bearish) ==
    IF bearish >= 3 THEN "STRONG SELL"
    ELSE IF bearish >= 2 THEN "SELL"
    ELSE IF bullish >= 3 THEN "STRONG BUY"
    ELSE IF bullish >= 2 THEN "BUY" ELSE ""

\* the counters the rules on the PCR give on their own: a local ratio of 1
\* adds to neither
PcrCounters == Sentiment(call.pcr, R(1))

\* C24: the bullish and the bearish counter are never both 2 or more, and
\* the rules on the PCR never add to both, so the decision is the same
\* with the bearish rules tried first: a pair of ratios with a bearish
\* counter of 2 or more is labelled SELL or STRONG SELL, never BUY.
C24_CountersExclusive ==
    (call.op = "sentiment") =>
        /\ ~(call.out.bullish >= 2 /\ call.out.bearish >= 2)
        /\ ~(PcrCounters.bullish >= 1 /\ PcrCounters.bearish >= 1)
        /\ call.out.label = SellFirst(call.out.bullish, call.out.bearish)
        /\ call.out.bearish >= 2 =>
              /\ call.out.side = "PE"
              /\ call.out.label \in {"SELL", "STRONG SELL"}

\* STRONG SELL is reached: a PCR of 0.6 and a local ratio of 0.7
C24_Witness ==
    /\ call.op = "sentiment"
    /\ call.pcr = Rat(6, 10)
    /\ call.oi_ratio = Rat(7, 10)
    /\ call.out.bearish = 3
    /\ call.out.label = "STRONG SELL"

\* both counters are positive: a PCR of 1.2 with a local ratio of 0.7
C24_BothPositive ==
    /\ call.op = "sentiment"
    /\ call.out.bullish = 1
    /\ call.out.bearish = 1
    /\ call.out.label = ""

\* the position of a symbol in SYMBOLS
SymbolIndex(sym) == CHOOSE y \in 1..Len(SYMBOLS) : SYMBOLS[y] = sym

\* some chain the symbol may get has, at the strike and on the side, the
\* implied volatility iv and the change in open interest coi
ObservedOn(sym, strike, side, iv, coi) ==
    \E r \in 1..Len(Outcomes[SymbolIndex(sym)]) :
        /\ Outcomes[SymbolIndex(sym)][r].kind = "analysed"
        /\ \E k \in 1..Len(Outcomes[SymbolIndex(sym)][r].analysis.strike_info) :
              /\ Outcomes[SymbolIndex(sym)][r].analysis.strike_info[k].strike = strike
              /\ SideOf(side, Outcomes[SymbolIndex(sym)][r].analysis.strike_info[k]).iv = iv
              /\ SideOf(side, Outcomes[SymbolIndex(sym)][r].analysis.strike_info[k]).coi = coi

\* C25: the prior entry against which a strike's deltas are computed for a
\* side was recorded from an observation of that side: its iv and coi are
\* those of the strike's call when the side is CE and of its put when the
\* side is PE.
C25_BaselineOfSameSide ==
    (MetricsAt /\ "iv" \in DOMAIN PriorEntry) =>
        ObservedOn(analysis.symbol, metrics.strike, analysis.side,
                   PriorEntry.iv, PriorEntry.coi)

\* NIFTY was bullish and is bearish now: the put at strike 100, at 12 with
\* an implied volatility of 25, is set against the call's 10 and 20
C25_CallBaselineForPut ==
    /\ MetricsAt
    /\ analysis.symbol = "NIFTY"
    /\ analysis.side = "PE"
    /\ metrics.strike = 100
    /\ StateFields \subseteq DOMAIN PriorEntry
    /\ PriorEntry.ema_ltp = R(10)
    /\ PriorEntry.iv = R(20)
    /\ PriorEntry.coi = 100
    /\ metrics.metrics.ltp = R(12)
    /\ metrics.metrics.ema_delta = R(1)
    /\ metrics.metrics.iv_delta = R(5)

====
